---- MODULE Spec2Model ----
(***************************************************************************)
(* Model of the news pipeline: Insert_news.py (ingestion of JSON files),   *)
(* update_news.py (refresh of describe_text) and update_ai_summarizer.py   *)
(* (AI summary and structured metadata), all working on the News table.    *)
(***************************************************************************)
EXTENDS Integers, Sequences, FiniteSets, TLC

(***************************************************************************)
(* Python values of the article / text fields.  A str is kept as a         *)
(* sequence of runs [c, n] (character c repeated n times, neighbouring     *)
(* runs of different characters), so that strings longer than the preview  *)
(* length can be enumerated.  None and int stand for the non-string        *)
(* values a JSON document can carry.                                       *)
(***************************************************************************)

\* article[:200], len(article) > 200
PreviewLen == 200

\* longest string, counted in runs, that the derivation inputs enumerate
MaxRuns == 2

Chars == {" ", "a"}

\* str.strip() removes these from both ends
Whitespace == {" "}

RunLens == {1, PreviewLen, PreviewLen + 1}

Run(c, n) == [c |-> c, n |-> n]

NoneV == [kind |-> "none"]

IntV(n) == [kind |-> "int", n |-> n]

StrV(r) == [kind |-> "str", runs |-> r]

RECURSIVE RunSeqs(_)
RunSeqs(k) ==
    IF k = 0 THEN {<<>>}
    ELSE LET shorter == RunSeqs(k - 1)
         IN  shorter \cup
             { Append(r, Run(c, n)) :
                 r \in {q \in shorter : Len(q) = k - 1}, c \in Chars, n \in RunLens }

Canonical(r) == \A i \in 1..(Len(r) - 1) : r[i].c # r[i + 1].c

Strings == { StrV(r) : r \in {q \in RunSeqs(MaxRuns) : Canonical(q)} }

Values == {NoneV, IntV(0), IntV(7)} \cup Strings

\* bool(v): None, 0 and "" are falsy
Truthy(v) ==
    CASE v.kind = "none" -> FALSE
      [] v.kind = "int"  -> v.n # 0
      [] v.kind = "str"  -> v.runs # <<>>

isinstance_str(v) == v.kind = "str"

RECURSIVE RunsLen(_)
RunsLen(r) == IF r = <<>> THEN 0 ELSE Head(r).n + RunsLen(Tail(r))

\* len(s)
len(v) == RunsLen(v.runs)

RECURSIVE Take(_, _)
Take(r, k) ==
    IF k = 0 \/ r = <<>> THEN <<>>
    ELSE IF Head(r).n <= k
         THEN <<Head(r)>> \o Take(Tail(r), k - Head(r).n)
         ELSE <<Run(Head(r).c, k)>>

\* s[:k]
slice(v, k) == StrV(Take(v.runs, k))

RECURSIVE LStrip(_)
LStrip(r) ==
    IF r = <<>> THEN <<>>
    ELSE IF Head(r).c \in Whitespace THEN LStrip(Tail(r)) ELSE r

RECURSIVE RStrip(_)
RStrip(r) ==
    IF r = <<>> THEN <<>>
    ELSE IF r[Len(r)].c \in Whitespace THEN RStrip(SubSeq(r, 1, Len(r) - 1)) ELSE r

\* s.strip()
strip(v) == StrV(RStrip(LStrip(v.runs)))

\* the i-th character of a string (1-based), for prefix comparisons
RECURSIVE CharAt(_, _)
CharAt(r, i) == IF i <= Head(r).n THEN Head(r).c ELSE CharAt(Tail(r), i - Head(r).n)

(***************************************************************************)
(* The three places that choose between article and text.                  *)
(***************************************************************************)

\* Insert_news.py: which branch of the describe_text rule is taken
map_json_to_db_branch(article, text) ==
    IF Truthy(article) /\ isinstance_str(article) /\ Truthy(strip(article))
    THEN "article"
    ELSE IF Truthy(text) /\ isinstance_str(text) /\ Truthy(strip(text))
         THEN "text"
         ELSE "none"

\* map_json_to_db with the article copied whole (no article[:200])
map_json_to_db_describe_text_unsliced(article, text) ==
    CASE map_json_to_db_branch(article, text) = "article" -> article
      [] map_json_to_db_branch(article, text) = "text" -> text
      [] OTHER -> NoneV

\* Insert_news.py: describe_text as map_json_to_db computes it
map_json_to_db_describe_text(article, text) ==
    CASE map_json_to_db_branch(article, text) = "article" ->
             IF len(article) > PreviewLen THEN slice(article, PreviewLen) ELSE article
      [] map_json_to_db_branch(article, text) = "text" -> text
      [] OTHER -> NoneV

\* Insert_news.py: the row built from a parsed document (the columns that
\* depend on article and text; the others are copied through)
map_json_to_db(json_data) ==
    [ text          |-> json_data.text,
      article       |-> json_data.article,
      describe_text |-> map_json_to_db_describe_text(json_data.article, json_data.text) ]

\* update_news.py: which branch of the describe_text rule is taken
update_describe_text_branch(article, text) ==
    IF Truthy(article) /\ isinstance_str(article) /\ Truthy(strip(article))
    THEN "article"
    ELSE IF Truthy(text) /\ isinstance_str(text) /\ Truthy(strip(text))
         THEN "text"
         ELSE "none"

\* update_describe_text with the article copied whole (no article[:200])
update_describe_text_value_unsliced(article, text) ==
    CASE update_describe_text_branch(article, text) = "article" -> article
      [] update_describe_text_branch(article, text) = "text" -> text
      [] OTHER -> NoneV

\* update_news.py: describe_text as update_describe_text computes it
update_describe_text_value(article, text) ==
    CASE update_describe_text_branch(article, text) = "article" ->
             IF len(article) > PreviewLen THEN slice(article, PreviewLen) ELSE article
      [] update_describe_text_branch(article, text) = "text" -> text
      [] OTHER -> NoneV

\* content selection with the two tests in the other order (text first)
content_branch_text_first(article, text) ==
    IF Truthy(text) /\ isinstance_str(text) /\ Truthy(strip(text))
    THEN "text"
    ELSE IF Truthy(article) /\ isinstance_str(article) /\ Truthy(strip(article))
         THEN "article"
         ELSE "none"

\* update_ai_summarizer.py: which field becomes content_to_process
content_branch(article, text) ==
    IF Truthy(article) /\ isinstance_str(article) /\ Truthy(strip(article))
    THEN "article"
    ELSE IF Truthy(text) /\ isinstance_str(text) /\ Truthy(strip(text))
         THEN "text"
         ELSE "none"

\* update_ai_summarizer.py: content_to_process (NoneV: the function returns
\* False before any completion call)
content_to_process(article, text) ==
    CASE content_branch(article, text) = "article" -> article
      [] content_branch(article, text) = "text" -> text
      [] OTHER -> NoneV

\* p is a prefix of s (both str values)
IsPrefix(p, s) ==
    /\ len(p) <= len(s)
    /\ \A i \in 1..len(p) : CharAt(p.runs, i) = CharAt(s.runs, i)

(***************************************************************************)
(* State.                                                                   *)
(***************************************************************************)

VARIABLES
    store,            \* the News table: row i has id i
    prog,             \* the script that is running: "idle", "ingest", "refresh", "enrich"
    pc,               \* where main is: "loop", "done", "interrupted" ("-" when idle)
    limit,            \* main(limit) of update_news.py / update_ai_summarizer.py
    fetch_status,     \* how get_news_records' query ended: "ok", "error", "throw"
    json_files,       \* process_json_files: the files glob returned
    records,          \* batch_update_*: the rows get_news_records returned
    idx,              \* number of loop iterations completed
    processed_count,
    error_count,
    report,           \* the counts main logs after the batch function returns
    last,             \* what the latest loop iteration did
    ok_calls,         \* store inserts / updates of this run that returned without error
    d_article,        \* derivation check: the inputs and the three results
    d_text,
    d_insert,
    d_update,
    d_content

vars == << store, prog, pc, limit, fetch_status, json_files, records, idx,
           processed_count, error_count, report, last, ok_calls,
           d_article, d_text, d_insert, d_update, d_content >>

run_vars == << prog, pc, limit, fetch_status, json_files, records, idx,
               processed_count, error_count, report, last, ok_calls >>

derive_vars == << d_article, d_text, d_insert, d_update, d_content >>

\* most rows the table holds in the model
MaxRecords == 2

LongText == StrV(<<Run("a", PreviewLen + 1)>>)

ShortText == StrV(<<Run("a", 1)>>)

BlankText == StrV(<<Run(" ", 1)>>)

\* the documents the ingestion reads: an article over the preview length,
\* a blank article with a long text, and no usable field at all
DocSamples ==
    { [article |-> LongText,  text |-> ShortText],
      [article |-> BlankText, text |-> LongText],
      [article |-> IntV(7),   text |-> NoneV] }

\* what a *.json file turns out to be when it is processed
FileKinds ==
    { [kind |-> k] : k \in {"missing", "badjson", "unreadable", "nonobject"} }
    \cup { [kind |-> "doc", doc |-> d] : d \in DocSamples }

\* a store call returns, returns a response carrying an error, or raises
StoreOutcomes == {"ok", "error", "throw"}

Limits == {NoneV} \cup { IntV(n) : n \in 0..MaxRecords }

NoReport == [has |-> FALSE, processed |-> 0, errors |-> 0]

NoLast == [op |-> "none"]

Unset == [set |-> FALSE, branch |-> "-", v |-> NoneV]

Min(a, b) == IF a < b THEN a ELSE b

(***************************************************************************)
(* The completion service.                                                  *)
(***************************************************************************)

\* texts the service can hand back as reasoning_content or as content
ReasoningTexts == {"not json", "{author:x}"}

PayloadTexts == {"not json", "{author:x}", "{author:y}"}

\* MetaArticle.model_validate_json(t) followed by model_dump()
MetaArticle_model_validate_json(t) ==
    CASE t = "{author:x}" -> [ok |-> TRUE,  dump |-> "author=x"]
      [] t = "{author:y}" -> [ok |-> TRUE,  dump |-> "author=y"]
      [] OTHER            -> [ok |-> FALSE, dump |-> "null"]

\* ai_summarizer_completion: raises, or returns (reasoning, summary)
SummarizeOutcomes ==
    { [ok |-> FALSE, summary |-> "-"], [ok |-> TRUE, summary |-> "summary"] }

\* guided_json_completion: raises, or returns (reasoning_content, content).
\* Its prompt is the row's metadata column; what the service answers to it is
\* the service's choice, so the column itself is not kept in the rows.
ExtractOutcomes ==
    { [ok |-> FALSE, reasoning |-> "-", payload |-> "-"] }
    \cup { [ok |-> TRUE, reasoning |-> r, payload |-> p] :
             r \in ReasoningTexts, p \in PayloadTexts }

\* what the two completion calls and the store update of one record answer;
\* a call that raises ends the record, so the later answers are left out
EnrichEnvs ==
    LET sumFail == CHOOSE o \in SummarizeOutcomes : ~o.ok
        extFail == CHOOSE o \in ExtractOutcomes : ~o.ok
    IN  { [sum |-> sumFail, ext |-> extFail, upd |-> "ok"] }
        \cup { [sum |-> o, ext |-> extFail, upd |-> "ok"] :
                  o \in {q \in SummarizeOutcomes : q.ok} }
        \cup { [sum |-> o, ext |-> e, upd |-> u] :
                  o \in {q \in SummarizeOutcomes : q.ok},
                  e \in {q \in ExtractOutcomes : q.ok},
                  u \in StoreOutcomes }

\* guided_json_completion returns (reasoning_content, content); this is the
\* element update_ai_summary hands to model_validate_json
validated_text(reasoning_meta, meta_json) == reasoning_meta

(***************************************************************************)
(* One loop iteration of each script, as a function of the item and of     *)
(* what the store and the completion service answer.                       *)
(***************************************************************************)

\* the loop body with the JSONDecodeError handler continuing without
\* error_count += 1
process_json_file_uncounted(file, insOut) ==
    LET failed == [op |-> "ingest", kind |-> file.kind, insert |-> "not issued",
                   db_data |-> NoneV, succeeded |-> 0, failed |-> 1]
    IN  IF file.kind = "badjson"
        THEN [failed EXCEPT !.failed = 0]
        ELSE IF file.kind \in {"missing", "unreadable", "nonobject"}
        THEN failed
        ELSE [failed EXCEPT !.insert = insOut,
                            !.db_data = map_json_to_db(file.doc),
                            !.succeeded = IF insOut = "ok" THEN 1 ELSE 0,
                            !.failed = IF insOut = "ok" THEN 0 ELSE 1]

\* Insert_news.py, body of "for json_file in json_files"
process_json_file(file, insOut) ==
    LET failed == [op |-> "ingest", kind |-> file.kind, insert |-> "not issued",
                   db_data |-> NoneV, succeeded |-> 0, failed |-> 1]
    IN  IF file.kind \in {"missing", "badjson", "unreadable", "nonobject"}
        THEN failed
        ELSE LET db_data == map_json_to_db(file.doc)
             IN  [failed EXCEPT !.insert = insOut,
                                !.db_data = db_data,
                                !.succeeded = IF insOut = "ok" THEN 1 ELSE 0,
                                !.failed = IF insOut = "ok" THEN 0 ELSE 1]

\* update_news.py
update_describe_text(record, updOut) ==
    IF record.id = 0
    THEN [op |-> "refresh", id |-> record.id, describe_text |-> NoneV,
          update |-> "not issued", ret |-> FALSE]
    ELSE [op |-> "refresh", id |-> record.id,
          describe_text |-> update_describe_text_value(record.article, record.text),
          update |-> updOut, ret |-> (updOut = "ok")]

\* update_ai_summary without the test of response.error: True whenever the
\* update call returns
update_ai_summary_unchecked(record, sumOut, extOut, updOut) ==
    LET base == [op |-> "enrich", id |-> record.id, content |-> NoneV,
                 summarize |-> "not called", summary |-> "-",
                 extract |-> "not called", reasoning |-> "-", payload |-> "-",
                 update |-> "not issued", upd_summarizer |-> "-",
                 upd_meta_filter |-> "-", ret |-> FALSE]
        content == content_to_process(record.article, record.text)
        parsed == MetaArticle_model_validate_json(
                      validated_text(extOut.reasoning, extOut.payload))
    IN  IF content.kind = "none" THEN base
        ELSE IF ~sumOut.ok
             THEN [base EXCEPT !.content = content, !.summarize = "throw"]
        ELSE IF ~extOut.ok
             THEN [base EXCEPT !.content = content, !.summarize = "ok",
                               !.summary = sumOut.summary, !.extract = "throw"]
        ELSE [base EXCEPT !.content = content, !.summarize = "ok",
                          !.summary = sumOut.summary, !.extract = "ok",
                          !.reasoning = extOut.reasoning,
                          !.payload = extOut.payload,
                          !.update = IF parsed.ok THEN updOut ELSE "not issued",
                          !.upd_summarizer = IF parsed.ok THEN sumOut.summary ELSE "-",
                          !.upd_meta_filter = IF parsed.ok THEN parsed.dump ELSE "-",
                          !.ret = (parsed.ok /\ updOut \in {"ok", "error"})]

\* update_ai_summarizer.py
update_ai_summary(record, sumOut, extOut, updOut) ==
    LET base == [op |-> "enrich", id |-> record.id, content |-> NoneV,
                 summarize |-> "not called", summary |-> "-",
                 extract |-> "not called", reasoning |-> "-", payload |-> "-",
                 update |-> "not issued", upd_summarizer |-> "-",
                 upd_meta_filter |-> "-", ret |-> FALSE]
        content == content_to_process(record.article, record.text)
    IN  IF record.id = 0 THEN base
        ELSE IF content.kind = "none" THEN base
        ELSE IF ~sumOut.ok
             THEN [base EXCEPT !.content = content, !.summarize = "throw"]
        ELSE IF ~extOut.ok
             THEN [base EXCEPT !.content = content, !.summarize = "ok",
                               !.summary = sumOut.summary, !.extract = "throw"]
        ELSE LET called == [base EXCEPT !.content = content, !.summarize = "ok",
                                        !.summary = sumOut.summary, !.extract = "ok",
                                        !.reasoning = extOut.reasoning,
                                        !.payload = extOut.payload]
                 parsed == MetaArticle_model_validate_json(
                               validated_text(extOut.reasoning, extOut.payload))
             IN  IF ~parsed.ok
                 \* the except clause only logs; meta_data is unbound at
                 \* meta_data.model_dump(), and the outer except returns False
                 THEN called
                 ELSE [called EXCEPT !.update = updOut,
                                     !.upd_summarizer = sumOut.summary,
                                     !.upd_meta_filter = parsed.dump,
                                     !.ret = (updOut = "ok")]

(***************************************************************************)
(* get_news_records.                                                        *)
(***************************************************************************)

RECURSIVE SortedSeq(_)
SortedSeq(S) ==
    IF S = {} THEN <<>>
    ELSE LET m == CHOOSE x \in S : \A y \in S : x <= y
         IN  <<m>> \o SortedSeq(S \ {m})

\* the rows the query can return: all of them, or limit of them when the
\* limit is applied (the table has no defined order, so any limit rows)
QueryRows(lim) ==
    LET n == Len(store)
        k == IF Truthy(lim) THEN Min(lim.n, n) ELSE n
    IN  { [i \in 1..k |->
             [id |-> SortedSeq(S)[i],
              article |-> store[SortedSeq(S)[i]].article,
              text |-> store[SortedSeq(S)[i]].text]] :
          S \in {T \in SUBSET (1..n) : Cardinality(T) = k} }

get_news_records(fetchOut, rows) == IF fetchOut = "ok" THEN rows ELSE <<>>

(***************************************************************************)
(* The table after the store call of one iteration.                        *)
(***************************************************************************)

\* supabase.table("News").insert(db_data): the new row gets the next id;
\* summarizer and meta_filter are columns only the enrichment writes
store_after_insert(r) ==
    IF r.insert = "ok"
    THEN Append(store, [article |-> r.db_data.article,
                        text |-> r.db_data.text,
                        describe_text |-> r.db_data.describe_text,
                        summarizer |-> "null",
                        meta_filter |-> "null"])
    ELSE store

\* .update({"describe_text": describe_text}).eq("id", record_id)
store_after_refresh(r) ==
    IF r.update = "ok"
    THEN [store EXCEPT ![r.id].describe_text = r.describe_text]
    ELSE store

\* .update(update_data).eq("id", record_id)
store_after_enrich(r) ==
    IF r.update = "ok"
    THEN [store EXCEPT ![r.id].summarizer = r.upd_summarizer,
                       ![r.id].meta_filter = r.upd_meta_filter]
    ELSE store

(***************************************************************************)
(* Actions.                                                                 *)
(***************************************************************************)

Init ==
    /\ store = <<>>
    /\ prog = "idle"
    /\ pc = "-"
    /\ limit = NoneV
    /\ fetch_status = "-"
    /\ json_files = <<>>
    /\ records = <<>>
    /\ idx = 0
    /\ processed_count = 0
    /\ error_count = 0
    /\ report = NoReport
    /\ last = NoLast
    /\ ok_calls = 0
    /\ d_article = NoneV
    /\ d_text = NoneV
    /\ d_insert = Unset
    /\ d_update = Unset
    /\ d_content = Unset

\* Insert_news.py: main up to the loop of process_json_files.  The folder
\* checks of main return without counts; an empty glob returns (0, 0).
StartIngest ==
    /\ prog = "idle"
    /\ \E folder_ok \in BOOLEAN, n \in 0..(MaxRecords - Len(store)) :
          /\ prog' = "ingest"
          /\ json_files' = IF folder_ok THEN [i \in 1..n |-> i] ELSE <<>>
          /\ pc' = IF folder_ok /\ n > 0 THEN "loop" ELSE "done"
          /\ report' = IF folder_ok /\ n = 0
                       THEN [has |-> TRUE, processed |-> 0, errors |-> 0]
                       ELSE NoReport
    /\ UNCHANGED << store, limit, fetch_status, records, idx, processed_count,
                    error_count, last, ok_calls, derive_vars >>

\* Insert_news.py: one iteration of the loop over json_files
IngestStep ==
    /\ prog = "ingest"
    /\ pc = "loop"
    /\ idx < Len(json_files)
    /\ \E file \in FileKinds, insOut \in StoreOutcomes :
          LET r == process_json_file(file, insOut)
          IN  /\ store' = store_after_insert(r)
              /\ ok_calls' = ok_calls + (IF r.insert = "ok" THEN 1 ELSE 0)
              /\ processed_count' = processed_count + r.succeeded
              /\ error_count' = error_count + r.failed
              /\ last' = r
    /\ idx' = idx + 1
    /\ UNCHANGED << prog, pc, limit, fetch_status, json_files, records, report,
                    derive_vars >>

\* update_news.py / update_ai_summarizer.py: main(limit) up to the loop of
\* batch_update_*: get_news_records, and (0, 0) when it returns no rows
StartBatch(p) ==
    /\ prog = "idle"
    /\ \E lim \in Limits, fetchOut \in StoreOutcomes :
          \E rows \in QueryRows(lim) :
             LET got == get_news_records(fetchOut, rows)
             IN  /\ prog' = p
                 /\ limit' = lim
                 /\ fetch_status' = fetchOut
                 /\ records' = got
                 /\ pc' = IF got = <<>> THEN "done" ELSE "loop"
                 /\ report' = IF got = <<>>
                              THEN [has |-> TRUE, processed |-> 0, errors |-> 0]
                              ELSE NoReport
    /\ UNCHANGED << store, json_files, idx, processed_count, error_count, last,
                    ok_calls, derive_vars >>

StartRefresh == StartBatch("refresh")

StartEnrich == StartBatch("enrich")

\* update_news.py: one iteration of the loop of batch_update_describe_text
RefreshStep ==
    /\ prog = "refresh"
    /\ pc = "loop"
    /\ idx < Len(records)
    /\ \E updOut \in StoreOutcomes :
          LET r == update_describe_text(records[idx + 1], updOut)
          IN  /\ store' = store_after_refresh(r)
              /\ ok_calls' = ok_calls + (IF r.update = "ok" THEN 1 ELSE 0)
              /\ processed_count' = processed_count + (IF r.ret THEN 1 ELSE 0)
              /\ error_count' = error_count + (IF r.ret THEN 0 ELSE 1)
              /\ last' = r
    /\ idx' = idx + 1
    /\ UNCHANGED << prog, pc, limit, fetch_status, json_files, records, report,
                    derive_vars >>

\* update_ai_summarizer.py: one iteration of the loop of batch_update_ai_summary
EnrichStep ==
    /\ prog = "enrich"
    /\ pc = "loop"
    /\ idx < Len(records)
    /\ \E env \in EnrichEnvs :
          LET r == update_ai_summary(records[idx + 1], env.sum, env.ext, env.upd)
          IN  /\ store' = store_after_enrich(r)
              /\ ok_calls' = ok_calls + (IF r.update = "ok" THEN 1 ELSE 0)
              /\ processed_count' = processed_count + (IF r.ret THEN 1 ELSE 0)
              /\ error_count' = error_count + (IF r.ret THEN 0 ELSE 1)
              /\ last' = r
    /\ idx' = idx + 1
    /\ UNCHANGED << prog, pc, limit, fetch_status, json_files, records, report,
                    derive_vars >>

ItemsLen == IF prog = "ingest" THEN Len(json_files) ELSE Len(records)

\* the loop ends, the batch function returns its counts and main logs them
ReturnCounts ==
    /\ prog # "idle"
    /\ pc = "loop"
    /\ idx = ItemsLen
    /\ pc' = "done"
    /\ report' = [has |-> TRUE, processed |-> processed_count, errors |-> error_count]
    /\ UNCHANGED << store, prog, limit, fetch_status, json_files, records, idx,
                    processed_count, error_count, last, ok_calls, derive_vars >>

\* main's KeyboardInterrupt handler logging the counts reached so far
Interrupt_with_counts ==
    /\ prog # "idle"
    /\ pc = "loop"
    /\ pc' = "interrupted"
    /\ report' = [has |-> TRUE, processed |-> processed_count, errors |-> error_count]
    /\ UNCHANGED << store, prog, limit, fetch_status, json_files, records, idx,
                    processed_count, error_count, last, ok_calls, derive_vars >>

\* KeyboardInterrupt between two iterations: it is no Exception, so it leaves
\* the loop and the batch function and reaches main's handler, which logs
\* that the user interrupted the script; the counts are locals of the batch
\* function and are logged by nobody
Interrupt ==
    /\ prog # "idle"
    /\ pc = "loop"
    /\ pc' = "interrupted"
    /\ UNCHANGED << store, prog, limit, fetch_status, json_files, records, idx,
                    processed_count, error_count, report, last, ok_calls,
                    derive_vars >>

\* the tables a KeyboardInterrupt inside iteration idx + 1 can leave behind:
\* the store call of that iteration has been carried out, its result has not
\* been counted
InFlightStores ==
    CASE prog = "ingest" ->
             { store_after_insert(process_json_file(f, "ok")) :
                 f \in {g \in FileKinds : g.kind = "doc"} }
      [] prog = "refresh" ->
             { store_after_refresh(update_describe_text(records[idx + 1], "ok")) }
      [] prog = "enrich" ->
             { store_after_enrich(
                   update_ai_summary(records[idx + 1], e.sum, e.ext, e.upd)) :
                 e \in EnrichEnvs }

\* KeyboardInterrupt inside an iteration: as Interrupt, with no cleanup of
\* what the iteration has already written
InterruptInFlight ==
    /\ prog # "idle"
    /\ pc = "loop"
    /\ idx < ItemsLen
    /\ store' \in InFlightStores
    /\ pc' = "interrupted"
    /\ UNCHANGED << prog, limit, fetch_status, json_files, records, idx,
                    processed_count, error_count, report, last, ok_calls,
                    derive_vars >>

\* the process ends
Exit ==
    /\ prog # "idle"
    /\ pc \in {"done", "interrupted"}
    /\ prog' = "idle"
    /\ pc' = "-"
    /\ limit' = NoneV
    /\ fetch_status' = "-"
    /\ json_files' = <<>>
    /\ records' = <<>>
    /\ idx' = 0
    /\ processed_count' = 0
    /\ error_count' = 0
    /\ report' = NoReport
    /\ last' = NoLast
    /\ ok_calls' = 0
    /\ UNCHANGED << store, derive_vars >>

Next ==
    \/ StartIngest
    \/ IngestStep
    \/ StartRefresh
    \/ RefreshStep
    \/ StartEnrich
    \/ EnrichStep
    \/ ReturnCounts
    \/ Interrupt
    \/ InterruptInFlight
    \/ Exit

Spec == Init /\ [][Next]_vars

(***************************************************************************)
(* The derivation rules applied to every pair of bounded inputs.           *)
(***************************************************************************)

InitDerive ==
    /\ store = <<>>
    /\ prog = "idle"
    /\ pc = "-"
    /\ limit = NoneV
    /\ fetch_status = "-"
    /\ json_files = <<>>
    /\ records = <<>>
    /\ idx = 0
    /\ processed_count = 0
    /\ error_count = 0
    /\ report = NoReport
    /\ last = NoLast
    /\ ok_calls = 0
    /\ d_article \in Values
    /\ d_text \in Values
    /\ d_insert = Unset
    /\ d_update = Unset
    /\ d_content = Unset

DeriveInsert ==
    /\ ~d_insert.set
    /\ d_insert' = [set |-> TRUE,
                    branch |-> map_json_to_db_branch(d_article, d_text),
                    v |-> map_json_to_db([article |-> d_article,
                                          text |-> d_text]).describe_text]
    /\ UNCHANGED << store, run_vars, d_article, d_text, d_update, d_content >>

DeriveUpdate ==
    /\ ~d_update.set
    /\ d_update' = [set |-> TRUE,
                    branch |-> update_describe_text_branch(d_article, d_text),
                    v |-> update_describe_text(
                              [id |-> 1, article |-> d_article, text |-> d_text],
                              "ok").describe_text]
    /\ UNCHANGED << store, run_vars, d_article, d_text, d_insert, d_content >>

DeriveContent ==
    /\ ~d_content.set
    /\ d_content' = [set |-> TRUE,
                     branch |-> content_branch(d_article, d_text),
                     v |-> content_to_process(d_article, d_text)]
    /\ UNCHANGED << store, run_vars, d_article, d_text, d_insert, d_update >>

NextDerive ==
    \/ DeriveInsert
    \/ DeriveUpdate
    \/ DeriveContent

SpecDerive == InitDerive /\ [][NextDerive]_vars

(***************************************************************************)
(* Properties.                                                              *)
(***************************************************************************)

\* a str that is non-empty after trimming
NonBlankStr(v) ==
    /\ v.kind = "str"
    /\ \E i \in 1..Len(v.runs) : v.runs[i].c \notin Whitespace

\* d is the first PreviewLen characters of a (all of a when it is shorter)
FirstChars(d, a) ==
    /\ d.kind = "str"
    /\ len(d) = Min(len(a), PreviewLen)
    /\ IsPrefix(d, a)
    /\ (len(a) <= PreviewLen => d = a)

\* the preview derivation rule, stated on the result d
PreviewRule(a, t, d) ==
    IF NonBlankStr(a) THEN FirstChars(d, a)
    ELSE IF NonBlankStr(t) THEN d = t
    ELSE d = NoneV

\* absent, or a string of at most PreviewLen characters
Bounded(d) == d.kind = "none" \/ (d.kind = "str" /\ len(d) <= PreviewLen)

\* C1: a record whose summarize call succeeds and whose extraction returns a
\* payload that does not parse as MetaArticle still gets a store update with
\* summarizer = the summary and meta_filter null, and is not counted as
\* failed when that update succeeds.
C1_PartialSuccess ==
    (/\ last.op = "enrich"
     /\ last.summarize = "ok"
     /\ last.extract = "ok"
     /\ ~MetaArticle_model_validate_json(last.payload).ok)
    => /\ last.update # "not issued"
       /\ last.upd_summarizer = last.summary
       /\ last.upd_meta_filter = "null"
       /\ (last.update = "ok" => last.ret)

\* C2: map_json_to_db and update_describe_text both give describe_text by the
\* preview rule (first 200 characters of a non-blank string article, else a
\* non-blank string text unchanged, else None), and the same value for the
\* same (article, text).
C2_PreviewRule ==
    /\ d_insert.set => PreviewRule(d_article, d_text, d_insert.v)
    /\ d_update.set => PreviewRule(d_article, d_text, d_update.v)
    /\ (d_insert.set /\ d_update.set) => d_insert.v = d_update.v

C2_Witness ==
    /\ d_insert.set
    /\ d_update.set
    /\ NonBlankStr(d_article)
    /\ d_article.runs[1].c \in Whitespace
    /\ len(d_article) > PreviewLen
    /\ d_insert.v # d_article

\* C3: content selection and preview derivation take the same branch for the
\* same (article, text): content is the article, the text or absent exactly
\* when the preview comes from the article, the text or is absent, and the
\* preview is a prefix of the content whenever there is content.
C3_Consistency ==
    (d_insert.set /\ d_content.set)
    => /\ d_content.branch = d_insert.branch
       /\ (d_insert.branch = "article" => d_content.v = d_article)
       /\ (d_insert.branch = "text" => d_content.v = d_text)
       /\ (d_insert.branch = "none" =>
              d_content.v.kind = "none" /\ d_insert.v.kind = "none")
       /\ (d_content.v.kind # "none" => IsPrefix(d_insert.v, d_content.v))

C3_Witness ==
    /\ d_insert.set
    /\ d_content.set
    /\ NonBlankStr(d_article)
    /\ NonBlankStr(d_text)
    /\ len(d_article) > PreviewLen
    /\ d_content.v = d_article
    /\ d_insert.v # d_content.v

\* C4: with a non-null limit L and N rows in the table, a batch run fetches
\* and processes exactly min(L, N) rows, so at most L, and
\* succeeded + failed <= L; with limit None it processes all N.  (Stated for
\* runs whose query succeeds.)
C4_LimitBound ==
    (prog \in {"refresh", "enrich"} /\ fetch_status = "ok")
    => /\ limit.kind = "int" =>
             /\ Len(records) = Min(limit.n, Len(store))
             /\ idx <= limit.n
             /\ processed_count + error_count <= limit.n
       /\ limit.kind = "none" => Len(records) = Len(store)
       /\ pc = "done" => processed_count + error_count = Len(records)

\* C5: process_json_files visits every file glob returned and counts each
\* exactly once, as succeeded when its insert succeeded and as failed
\* otherwise; the returned counts add up to the number of files.
C5_IngestCounts ==
    prog = "ingest"
    => /\ processed_count + error_count = idx
       /\ processed_count = ok_calls
       /\ idx <= Len(json_files)
       /\ (pc = "done" /\ report.has) =>
             /\ idx = Len(json_files)
             /\ report.processed + report.errors = Len(json_files)
             /\ report.processed = ok_calls

C5_Witness ==
    /\ prog = "ingest"
    /\ pc = "done"
    /\ Len(json_files) = 2
    /\ last.kind = "badjson"
    /\ report = [has |-> TRUE, processed |-> 1, errors |-> 1]

\* C6: in an enrichment run a record whose summarize, extract or update call
\* raises or returns an error is counted once as failed, with no update
\* issued when a completion call failed; the run goes on through every
\* fetched record, and at the end succeeded + failed = fetched records and
\* succeeded = records whose update succeeded.
C6_Isolation ==
    prog = "enrich"
    => /\ processed_count + error_count = idx
       /\ processed_count = ok_calls
       /\ idx <= Len(records)
       /\ last.op = "enrich" =>
             /\ (last.summarize = "throw" \/ last.extract = "throw") =>
                    (last.update = "not issued" /\ ~last.ret)
             /\ last.update \in {"error", "throw"} => ~last.ret
       /\ pc = "done" =>
             /\ idx = Len(records)
             /\ report = [has |-> TRUE, processed |-> processed_count,
                          errors |-> error_count]
             /\ report.processed + report.errors = Len(records)

C6_Witness ==
    /\ prog = "enrich"
    /\ pc = "done"
    /\ Len(records) = 2
    /\ last.op = "enrich"
    /\ last.summarize = "throw"
    /\ last.id = records[2].id
    /\ report = [has |-> TRUE, processed |-> 1, errors |-> 1]

\* C7: an enrichment iteration on a record with no usable content makes no
\* completion call and no store update and leaves the failed count as it was.
C7_SkipNotError ==
    [][ (prog = "enrich" /\ idx' = idx + 1 /\ last'.content.kind = "none")
        => /\ last'.summarize = "not called"
           /\ last'.update = "not issued"
           /\ store' = store
           /\ error_count' = error_count ]_vars

\* C8 (as claimed): once a run is interrupted after k >= 1 items, the counts
\* accumulated over those items have been reported.
C8_InterruptReportsCounts ==
    (pc = "interrupted" /\ idx >= 1)
    => report = [has |-> TRUE, processed |-> processed_count,
                 errors |-> error_count]

\* C8 (amended): a KeyboardInterrupt during a batch run reaches main, no
\* further item is started and nothing more is written or counted, and no
\* counts are reported: the accumulated counts are dropped.
C8_InterruptStops ==
    [][ /\ (pc = "loop" /\ pc' = "interrupted") =>
              /\ idx' = idx
              /\ processed_count' = processed_count
              /\ error_count' = error_count
              /\ ~report'.has
        /\ pc = "interrupted" =>
              /\ ~report.has
              /\ store' = store
              /\ prog' = "idle" ]_vars

C8_Witness ==
    /\ pc = "interrupted"
    /\ idx >= 1
    /\ idx < ItemsLen
    /\ processed_count >= 1

\* C9: for a record whose two completion calls succeed, the meta_filter that
\* is written is the parse of the answer payload, whatever the reasoning
\* trace holds; a payload that conforms is written even when the reasoning
\* trace is no JSON.
C9_ValidatesPayload ==
    (last.op = "enrich" /\ last.summarize = "ok" /\ last.extract = "ok")
    => LET parsed == MetaArticle_model_validate_json(last.payload)
       IN  /\ parsed.ok => last.update # "not issued"
           /\ last.update # "not issued" => last.upd_meta_filter = parsed.dump

\* C10 (as claimed): every describe_text in the table, and every one a
\* refresh writes, is absent or a string of at most 200 characters.
C10_BoundedPreview ==
    /\ \A i \in 1..Len(store) : Bounded(store[i].describe_text)
    /\ (last.op = "refresh" /\ last.update # "not issued") =>
           Bounded(last.describe_text)

\* C10 (amended): every describe_text written is absent, or the first 200
\* characters at most of a non-blank string article, or the text unchanged,
\* of any length, when the article is not a non-blank string.
C10_PreviewFollowsRule ==
    /\ \A i \in 1..Len(store) :
          PreviewRule(store[i].article, store[i].text, store[i].describe_text)
    /\ (last.op = "refresh" /\ last.update # "not issued") =>
           PreviewRule(store[last.id].article, store[last.id].text,
                       last.describe_text)

C10_Witness ==
    /\ last.op = "refresh"
    /\ last.update = "ok"
    /\ ~NonBlankStr(store[last.id].article)
    /\ store[last.id].describe_text.kind = "str"
    /\ len(store[last.id].describe_text) > PreviewLen
    /\ store[last.id].describe_text = last.describe_text

====
